---- MODULE Spec2Model ----
(***************************************************************************)
(* Model of steps/agents/generate_learning_path_step.py: the event handler *)
(* `handler` and the four-node LangGraph pipeline of LearningPathGenerator *)
(* (analyze_background -> generate_curriculum -> enrich_resources ->       *)
(* finalize_path), with its progress sink, its event emitter and its model *)
(* client.                                                                 *)
(*                                                                         *)
(* Python values are records tagged by "type".  A model response is a      *)
(* sequence of text tokens; the fence stripping of the two parse sites is  *)
(* computed on the tokens as the code computes it on the characters.       *)
(* Wall-clock fields (timestamp, createdAt, completedAt), the free-text    *)
(* `message` of a progress record and the pass-through request fields      *)
(* background / goalLevel are left out: no step reads them.                *)
(***************************************************************************)
EXTENDS Integers, Sequences, FiniteSets, TLC

(* ---------------------------------------------------------------- bounds *)
\* Largest number of modules in a curriculum the model client returns.
MaxModules == 2

(* ------------------------------------------------------------- Python values *)
PyNone == [type |-> "None"]
Str(chunks) == [type |-> "str", s |-> chunks]
Num(n) == [type |-> "num", n |-> n]
PyBool(b) == [type |-> "bool", b |-> b]
List(items) == [type |-> "list", items |-> items]
\* A dict: its keys in insertion order and its key/value record.
Dict(keys, val) == [type |-> "dict", keys |-> keys, val |-> val]
\* {}
EmptyDict == Dict(<<>>, <<>>)
Ok(v) == [ok |-> TRUE, v |-> v]
Raised(exc) == [ok |-> FALSE, exc |-> exc]

\* d.get(key, default); AttributeError when d is no dict (None, list, str, number).
DictGet(d, key, default) ==
    IF d.type # "dict" THEN Raised("AttributeError")
    ELSE IF key \in DOMAIN d.val THEN Ok(d.val[key]) ELSE Ok(default)

\* d[key]; TypeError when d is no dict, KeyError when the key is missing.
DictItem(d, key) ==
    IF d.type # "dict" THEN Raised("TypeError")
    ELSE IF key \in DOMAIN d.val THEN Ok(d.val[key]) ELSE Raised("KeyError")

\* d[key] = v on a dict d: a new key goes after the keys already there.
DictSet(d, key, v) ==
    [d EXCEPT !.keys = IF key \in DOMAIN d.val THEN @ ELSE Append(@, key),
              !.val = [k \in (DOMAIN d.val) \cup {key} |->
                          IF k = key THEN v ELSE d.val[k]]]

\* The keys of a dict, in insertion order, as strings (each a Str value).
KeySeq(keys) == [i \in 1..Len(keys) |-> Str(<<keys[i]>>)]

\* The elements a for-loop over v visits: a list's items, a string's
\* characters, a dict's keys; TypeError for None and numbers.
Iterate(v) ==
    IF v.type = "list" THEN Ok(v.items)
    ELSE IF v.type = "str" THEN Ok([i \in 1..Len(v.s) |-> Str(<<v.s[i]>>)])
    ELSE IF v.type = "dict" THEN Ok(KeySeq(v.keys))
    ELSE Raised("TypeError")

\* len(v), under the same typing.
PyLen(v) ==
    IF v.type = "list" THEN Ok(Len(v.items))
    ELSE IF v.type = "str" THEN Ok(Len(v.s))
    ELSE IF v.type = "dict" THEN Ok(Len(v.keys))
    ELSE Raised("TypeError")

\* The characters of the strings of `items` with ", " between them.
RECURSIVE JoinChunks(_)
JoinChunks(items) ==
    IF items = <<>> THEN <<>>
    ELSE IF Len(items) = 1 THEN items[1].s
    ELSE items[1].s \o <<", ">> \o JoinChunks(Tail(items))

\* ', '.join(v): v is iterated (a list's items, a string's characters, a
\* dict's keys) and every element must be a string; TypeError otherwise.
JoinStrings(v) ==
    LET it == Iterate(v)
    IN IF ~it.ok THEN Raised("TypeError")
       ELSE IF \E i \in 1..Len(it.v) : it.v[i].type # "str" THEN Raised("TypeError")
       ELSE Ok(Str(JoinChunks(it.v)))

\* bool(v): None, False, 0, "", [] and {} are falsy.
Truthy(v) ==
    CASE v.type = "None" -> FALSE
      [] v.type = "bool" -> v.b
      [] v.type = "num" -> v.n # 0
      [] v.type = "str" -> v.s # <<>>
      [] v.type = "list" -> v.items # <<>>
      [] v.type = "dict" -> v.keys # <<>>
      [] OTHER -> TRUE

(* ------------------------------------------------------------- response text *)
\* Tokens of a model response.  WS is a whitespace character, FENCE the three
\* backticks, TAGJSON the four characters `json`, Prose(c) a run of characters
\* that is not JSON, DocText(v) the JSON text of the value v (json.dumps(v)).
\* DocHead(v) FENCE DocTail(v) is the JSON text of a value v one of whose
\* strings contains three backticks.
WS == [t |-> "ws"]
FENCE == [t |-> "fence"]
TAGJSON == [t |-> "json"]
Prose(c) == [t |-> "prose", c |-> c]
DocText(v) == [t |-> "doc", v |-> v]
DocHead(v) == [t |-> "dochead", v |-> v]
DocTail(v) == [t |-> "doctail", v |-> v]

RECURSIVE lstrip(_)
lstrip(text) ==
    IF text # <<>> /\ Head(text) = WS THEN lstrip(Tail(text)) ELSE text

RECURSIVE rstrip(_)
rstrip(text) ==
    IF text # <<>> /\ text[Len(text)] = WS
    THEN rstrip(SubSeq(text, 1, Len(text) - 1)) ELSE text

\* str.strip()
strip(text) == rstrip(lstrip(text))

\* str.startswith for the two prefixes the code tests.
startswith(text, tok) == text # <<>> /\ Head(text) = tok

\* The position of the first FENCE at or after index i, Len(text)+1 if none.
RECURSIVE find_fence(_, _)
find_fence(text, i) ==
    IF i > Len(text) THEN i
    ELSE IF text[i] = FENCE THEN i ELSE find_fence(text, i + 1)

\* content.split('```')[1] for a content that starts with a fence: what lies
\* between the first fence and the next one (or the end).
split_fence_1(text) == SubSeq(text, 2, find_fence(text, 2) - 1)

\* json.loads(content): the value of a well-formed JSON text, JSONDecodeError
\* for anything else (prose, the empty text, a tag or fence left in the text,
\* text after the document, half a document).
json_loads(content) ==
    LET c == strip(content) IN
    IF Len(c) = 1 /\ c[1].t = "doc" THEN Ok(c[1].v)
    ELSE IF /\ Len(c) = 3
            /\ c[1].t = "dochead" /\ c[2] = FENCE /\ c[3].t = "doctail"
            /\ c[1].v = c[3].v
         THEN Ok(c[1].v)
    ELSE Raised("JSONDecodeError")

\* The fence stripping both parse sites apply to response.content before
\* json.loads.
strip_fences(raw) ==
    LET c0 == strip(raw)
        c1 == IF startswith(c0, FENCE)
              THEN LET seg == split_fence_1(c0)
                   IN IF startswith(seg, TAGJSON) THEN Tail(seg) ELSE seg
              ELSE c0
    IN strip(c1)

parse_fenced(raw) == json_loads(strip_fences(raw))

(* ------------------------------------------- what the model client can return *)
\* An entry of a curriculum's `modules` array, by shape:
\*   good     {"title": "Module i", "key_concepts": ["k"]}
\*   notitle  {"description": "Module i"}
\*   nondict  "Module i"                      (a bare string in the array)
\*   badkc    {"title": "Module i", "key_concepts": null}
ModuleKinds == {"good", "notitle", "nondict", "badkc"}

ModuleName(i) == Str(<<"Module", ToString(i)>>)

ModuleOf(kind, i) ==
    CASE kind = "good" ->
           Dict(<<"title", "key_concepts">>,
                [title |-> ModuleName(i), key_concepts |-> List(<<Str(<<"k">>)>>)])
      [] kind = "notitle" -> Dict(<<"description">>, [description |-> ModuleName(i)])
      [] kind = "nondict" -> ModuleName(i)
      [] kind = "badkc" ->
           Dict(<<"title", "key_concepts">>,
                [title |-> ModuleName(i), key_concepts |-> PyNone])

ModuleLists ==
    UNION { { [i \in 1..n |-> ModuleOf(kinds[i], i)] : kinds \in [1..n -> ModuleKinds] }
            : n \in 0..MaxModules }

CurriculumDict(modules) ==
    Dict(<<"title", "description", "total_hours", "modules">>,
         [title |-> Str(<<"Path">>), description |-> Str(<<"Desc">>),
          total_hours |-> Num(12), modules |-> modules])

\* The JSON values a curriculum response may hold: objects with a modules
\* array, with `modules` of another type or missing, and values that are not
\* objects (null, []).
CurriculumValues ==
    { CurriculumDict(List(ms)) : ms \in ModuleLists }
    \cup { CurriculumDict(PyNone), CurriculumDict(Str(<<>>)),
           CurriculumDict(Str(<<"a", "b">>)),
           Dict(<<"title">>, [title |-> Str(<<"Path">>)]),
           PyNone, List(<<>>) }

\* A curriculum object whose title holds three backticks.
CurriculumWithBackticks ==
    Dict(<<"title", "modules">>,
         [title |-> Str(<<"a", "FENCE", "b">>),
          modules |-> List(<<ModuleOf("good", 1)>>)])

Resource ==
    Dict(<<"type", "title">>, [type |-> Str(<<"video">>), title |-> Str(<<"R">>)])

\* The JSON values an enrichment response may hold.
ResourceValues ==
    { Dict(<<"resources">>, [resources |-> List(<<Resource>>)]),
      Dict(<<"resources">>, [resources |-> PyNone]),
      Dict(<<"note">>, [note |-> Str(<<"none found">>)]),
      List(<<Resource>>) }

\* The ways a body of text is framed in a response.
Wrappings ==
    {"bare", "padded", "fence", "fence_json", "fence_json_open",
     "fence_json_trailing", "preamble", "fence_ws_json"}

Wrap(w, body) ==
    CASE w = "bare" -> body
      [] w = "padded" -> <<WS>> \o body \o <<WS>>
      [] w = "fence" -> <<FENCE, WS>> \o body \o <<WS, FENCE>>
      [] w = "fence_json" -> <<FENCE, TAGJSON, WS>> \o body \o <<WS, FENCE>>
      [] w = "fence_json_open" -> <<FENCE, TAGJSON, WS>> \o body
      [] w = "fence_json_trailing" ->
           <<WS, FENCE, TAGJSON, WS>> \o body \o <<WS, FENCE, WS, Prose("note")>>
      [] w = "preamble" ->
           <<Prose("Here:"), WS, FENCE, TAGJSON, WS>> \o body \o <<WS, FENCE>>
      [] w = "fence_ws_json" -> <<FENCE, WS, TAGJSON, WS>> \o body \o <<WS, FENCE>>

\* The bodies: a JSON document, a document followed by prose, prose, nothing.
Bodies(values) ==
    { <<DocText(v)>> : v \in values }
    \cup { <<DocText(v), WS, Prose("note")>> : v \in values }
    \cup { <<Prose("Sorry")>>, <<>> }

Texts(values) == { Wrap(w, b) : w \in Wrappings, b \in Bodies(values) }

SplitDocBody(v) == <<DocHead(v), FENCE, DocTail(v)>>

AnalysisTexts == { <<Prose("A")>>, <<WS, Prose("A"), WS>>, <<>> }

CurriculumTexts ==
    Texts(CurriculumValues)
    \cup { Wrap(w, SplitDocBody(CurriculumWithBackticks)) : w \in Wrappings }

ResourceTexts == Texts(ResourceValues)

(* ------------------------------------------------------------ the stage logic *)
\* What an f-string or str() makes of a response text: its characters.
CharsOf(tok) ==
    CASE tok.t = "prose" -> tok.c
      [] tok.t = "ws" -> " "
      [] tok.t = "fence" -> "FENCE"
      [] tok.t = "json" -> "json"
      [] OTHER -> "JSON"

TextOf(text) == Str([i \in 1..Len(text) |-> CharsOf(text[i])])

\* A key the request does not have.
Absent == [type |-> "absent"]

\* generate(): the initial state built from the request;
\* req.get('preferences', {}) is {} only when the key is missing.
InitialState(req) ==
    [user_id |-> req.userId, topic |-> req.topic, trace_id |-> req.traceId,
     preferences |-> IF req.preferences = Absent THEN EmptyDict ELSE req.preferences,
     analysis |-> PyNone, curriculum_structure |-> PyNone,
     enriched_modules |-> PyNone, final_path |-> PyNone,
     progress |-> 0, current_stage |-> "analyzing", error |-> PyNone]

\* _analyze_background after the model call returned `content`.
analyze_background_result(st, content) ==
    [st EXCEPT !.analysis = TextOf(strip(content)),
               !.progress = 20,
               !.current_stage = "analyzing"]

FallbackTotalHours == 30

\* The fallback curriculum of _generate_curriculum.
FallbackCurriculum(st) ==
    Dict(<<"title", "description", "total_hours", "modules">>,
         [title |-> Str(<<"Learning Path: ">> \o st.topic.s),
          description |-> st.analysis,
          total_hours |-> Num(FallbackTotalHours),
          modules |-> List(<<>>)])

\* A mutant of generate_curriculum_result: the JSONDecodeError is not caught.
generate_curriculum_result_uncaught(st, content, hasLogger) ==
    LET p == parse_fenced(content)
    IN IF ~p.ok THEN Raised(p.exc)
       ELSE Ok([st EXCEPT !.curriculum_structure = p.v,
                          !.progress = 60,
                          !.current_stage = "generating"])

\* _generate_curriculum after the model call returned `content`: the parse,
\* the fallback on JSONDecodeError, the logger's len(curriculum.get('modules',
\* [])) when a logger is configured, and the state update.
generate_curriculum_result(st, content, hasLogger) ==
    LET p == parse_fenced(content)
        curriculum == IF p.ok THEN p.v ELSE FallbackCurriculum(st)
        logged == IF hasLogger
                  THEN LET g == DictGet(curriculum, "modules", List(<<>>))
                       IN IF g.ok THEN PyLen(g.v) ELSE g
                  ELSE Ok(0)
    IN IF ~logged.ok THEN Raised(logged.exc)
       ELSE Ok([st EXCEPT !.curriculum_structure = curriculum,
                          !.progress = 60,
                          !.current_stage = "generating"])

\* The sequence the for-loop of _enrich_resources runs over.
enrich_iter(st) ==
    LET g == DictGet(st.curriculum_structure, "modules", List(<<>>))
    IN IF g.ok THEN Iterate(g.v) ELSE g

\* The prompt of one module, its parts evaluated in the order of the
\* f-string: module['title'], module.get('description', ''),
\* ', '.join(module.get('key_concepts', [])), then the three
\* preferences.get(..., True) on state's preferences.
enrich_prompt(module, preferences) ==
    LET t == DictItem(module, "title")
        d == DictGet(module, "description", Str(<<>>))
        k == DictGet(module, "key_concepts", List(<<>>))
        j == IF k.ok THEN JoinStrings(k.v) ELSE k
        v == DictGet(preferences, "includeVideos", PyBool(TRUE))
        a == DictGet(preferences, "includeArticles", PyBool(TRUE))
        c == DictGet(preferences, "includeDocs", PyBool(TRUE))
    IN IF ~t.ok THEN t
       ELSE IF ~d.ok THEN d
       ELSE IF ~j.ok THEN j
       ELSE IF ~v.ok THEN v
       ELSE Ok([title |-> t.v, description |-> d.v, key_concepts |-> j.v,
                includeVideos |-> v.v, includeArticles |-> a.v,
                includeDocs |-> c.v])

\* The module after its enrichment response `content` was handled.
enrich_module_result(module, content) ==
    LET p == parse_fenced(content)
    IN IF ~p.ok THEN Ok(DictSet(module, "resources", List(<<>>)))
       ELSE LET g == DictGet(p.v, "resources", List(<<>>))
            IN IF g.ok THEN Ok(DictSet(module, "resources", g.v)) ELSE g

\* A mutant of enrich_progress: the interpolation counts the modules
\* completed before this one.
enrich_progress_zero_based(idx, total) == 75 + (idx * 15) \div total

\* A mutant of enrich_progress: the interpolation runs downwards from 90.
enrich_progress_inverted(idx, total) == 90 - ((idx + 1) * 15) \div total

\* 75 + int((idx + 1) / total * 15).  The float quotient and product round to
\* the same integer as the exact floor for every total below 200.
enrich_progress(idx, total) == 75 + ((idx + 1) * 15) \div total

\* _enrich_resources after its loop: the state update.
enrich_resources_result(st, enriched_modules) ==
    [st EXCEPT !.enriched_modules = List(enriched_modules),
               !.progress = 90,
               !.current_stage = "enriching"]

\* _finalize_path after its progress update.
finalize_path_result(st) ==
    LET curriculum == DictSet(st.curriculum_structure, "modules", st.enriched_modules)
        final_path == Dict(<<"userId", "topic", "preferences", "analysis",
                             "curriculum", "traceId">>,
                           [userId |-> st.user_id, topic |-> st.topic,
                            preferences |-> st.preferences,
                            analysis |-> st.analysis, curriculum |-> curriculum,
                            traceId |-> st.trace_id])
    IN [st EXCEPT !.curriculum_structure = curriculum,
                  !.final_path = final_path,
                  !.progress = 100,
                  !.current_stage = "completed"]

\* A mutant of Edges (below): the enrich node is wired before the generate node.
Edges_swapped ==
    [analyze_background |-> "enrich_resources",
     enrich_resources |-> "generate_curriculum",
     generate_curriculum |-> "finalize_path",
     finalize_path |-> "END"]

\* _build_graph: the entry point of the compiled graph.
EntryPoint == "analyze_background"

\* _build_graph: the edges of the compiled graph.
Edges ==
    [analyze_background |-> "generate_curriculum",
     generate_curriculum |-> "enrich_resources",
     enrich_resources |-> "finalize_path",
     finalize_path |-> "END"]

(* ------------------------------------------------------------------ the state *)
\* Handler invocations.  Spec runs one of them; the other stays idle.
Runs == {"r1", "r2"}

VARIABLES
    env,      \* per invocation: the request, the context and the environment
    pc,       \* per invocation: where the handler is
    node,     \* per invocation: the graph node the runner is at
    state,    \* per invocation: the pipeline state dict
    loc,      \* per invocation: the locals of the loop of _enrich_resources
    error,    \* per invocation: the exception the handler caught, or "none"
    sink,     \* streams.learningPathCreation: last record per trace id
    written,  \* per invocation: the records the sink accepted, in order
    emitted,  \* per invocation: the emit calls made, in order
    calls,    \* per invocation: the llm.ainvoke calls made, in order
    started,  \* per invocation: the graph nodes started, in order
    iofault   \* per invocation: whether a sink write or an emit call raised

vars == <<env, pc, node, state, loc, error, sink, written, emitted, calls,
          started, iofault>>

ReqTraceOf(r) == Str(<<IF r = "r1" THEN "t1" ELSE "t2">>)
CtxTraceOf(r) == Str(<<IF r = "r1" THEN "c1" ELSE "c2">>)
UserOf(r) == Str(<<IF r = "r1" THEN "u1" ELSE "u2">>)
TraceKeys == UNION { {ReqTraceOf(r), CtxTraceOf(r)} : r \in Runs }

\* The `preferences` a request may carry besides none at all: an object
\* with a flag, null, and a list.
PreferenceValues ==
    { Dict(<<"includeVideos">>, [includeVideos |-> PyBool(FALSE)]),
      PyNone, List(<<>>) }

\* What an invocation is given: whether GROQ_API_KEY is set, which of
\* ctx.logger / ctx.streams / ctx.emit exist, the request's traceId (or
\* None), the context's traceId (or None), the request's userId, topic and
\* preferences.  Requests that carry preferences come with the credential,
\* a sink, an emitter and their own traceId.
Envs(r) ==
    [hasKey : BOOLEAN, logger : BOOLEAN, streams : BOOLEAN, emit : BOOLEAN,
     req : [userId : {UserOf(r)}, topic : {Str(<<"Rust">>)},
            traceId : {PyNone, ReqTraceOf(r)}, preferences : {Absent}],
     ctxTraceId : {PyNone, CtxTraceOf(r)}]
    \cup
    [hasKey : {TRUE}, logger : {FALSE}, streams : {TRUE}, emit : {TRUE},
     req : [userId : {UserOf(r)}, topic : {Str(<<"Rust">>)},
            traceId : {ReqTraceOf(r)}, preferences : PreferenceValues],
     ctxTraceId : {PyNone}]

IdleEnv(r) ==
    [hasKey |-> FALSE, logger |-> FALSE, streams |-> FALSE, emit |-> FALSE,
     req |-> [userId |-> UserOf(r), topic |-> Str(<<"Rust">>), traceId |-> PyNone,
              preferences |-> Absent],
     ctxTraceId |-> PyNone]

NoLocals == [idx |-> 0, enriched_modules |-> <<>>]

InitOf(active) ==
    /\ env \in [Runs -> UNION { Envs(r) : r \in Runs }]
    /\ \A r \in Runs : IF r \in active THEN env[r] \in Envs(r)
                                       ELSE env[r] = IdleEnv(r)
    /\ pc = [r \in Runs |-> IF r \in active THEN "start" ELSE "idle"]
    /\ node = [r \in Runs |-> "none"]
    /\ state = [r \in Runs |-> PyNone]
    /\ loc = [r \in Runs |-> NoLocals]
    /\ error = [r \in Runs |-> "none"]
    /\ sink = [k \in TraceKeys |-> PyNone]
    /\ written = [r \in Runs |-> <<>>]
    /\ emitted = [r \in Runs |-> <<>>]
    /\ calls = [r \in Runs |-> <<>>]
    /\ started = [r \in Runs |-> <<>>]
    /\ iofault = [r \in Runs |-> FALSE]

Init == InitOf({"r1"})

(* --------------------------------------------------------- handler's values *)
\* A mutant of trace_id: one trace id kept for all invocations.
trace_id_shared(r) == ReqTraceOf("r1")

\* trace_id = req.get('traceId') or getattr(ctx, 'traceId', None)
trace_id(r) ==
    IF Truthy(env[r].req.traceId) THEN env[r].req.traceId ELSE env[r].ctxTraceId

\* `if self.streams and self.trace_id` / `if streams and trace_id`
Streams(r) == env[r].streams /\ Truthy(trace_id(r))

\* The outcomes of one sink write: it returns, or (when made at all) raises.
SinkOutcomes(r) == IF Streams(r) THEN {"ok", "raise"} ELSE {"ok"}

\* The outcomes of one emit call.
EmitOutcomes == {"ok", "raise"}

ProgressRecord(stage, progress) == [type |-> "record", stage |-> stage, progress |-> progress]

\* _stream_update / the handler's error upsert: the sink's part.
stream_update(r, stage, progress, outcome) ==
    LET accepted == Streams(r) /\ outcome = "ok"
        rec == ProgressRecord(stage, progress)
    IN /\ sink' = IF accepted THEN [sink EXCEPT ![trace_id(r)] = rec] ELSE sink
       /\ written' = IF accepted
                     THEN [written EXCEPT ![r] = Append(@, [key |-> trace_id(r), rec |-> rec])]
                     ELSE written
       /\ iofault' = [iofault EXCEPT ![r] = @ \/ (outcome = "raise")]

Goto(r, p, n, e) ==
    /\ pc' = [pc EXCEPT ![r] = p]
    /\ node' = [node EXCEPT ![r] = n]
    /\ error' = [error EXCEPT ![r] = e]

\* An exception inside the try block: control passes to the except clause.
Throw(r, exc) == Goto(r, "except", node[r], exc)

\* The runner follows the node's edge; after END generate() returns.
FinishNode(r) ==
    LET n == Edges[node[r]]
    IN Goto(r, IF n = "END" THEN "emit_generated" ELSE "report", n, error[r])

Start(r) == started' = [started EXCEPT ![r] = Append(@, node[r])]

\* Whether a response is a JSON document, bare or between a pair of fences
\* (with or without the json tag), whitespace aside.
IsFencedJson(content) ==
    LET c == strip(content)
        inner == IF Len(c) >= 2 /\ c[1] = FENCE /\ c[Len(c)] = FENCE
                 THEN LET seg == SubSeq(c, 2, Len(c) - 1)
                      IN IF startswith(seg, TAGJSON) THEN Tail(seg) ELSE seg
                 ELSE c
    IN json_loads(inner).ok

\* How a call to the model client ended, for the record kept in `calls`:
\* "raise", or what the fence stripping and json.loads make of the text
\* returned: "not_json", "json_object", "json_other".
ReplyOf(content) ==
    LET p == parse_fenced(content)
    IN IF ~p.ok THEN "not_json"
       ELSE IF p.v.type = "dict" THEN "json_object" ELSE "json_other"

\* A mutant of Call: a call that returned is made a second time.
Call_repeated(r, i, reply, fenced_json) ==
    LET c == [node |-> node[r], idx |-> i, reply |-> reply, fenced_json |-> fenced_json]
    IN calls' = [calls EXCEPT ![r] = IF reply = "raise" THEN Append(@, c)
                                                        ELSE Append(Append(@, c), c)]

\* The record of one llm.ainvoke call.  fenced_json is kept for the
\* curriculum response only.
Call(r, i, reply, fenced_json) ==
    calls' = [calls EXCEPT ![r] = Append(@, [node |-> node[r], idx |-> i,
                                             reply |-> reply,
                                             fenced_json |-> fenced_json])]

\* A mutant of append_module: the module is inserted at the front.
append_module_front(enriched_modules, module) == <<module>> \o enriched_modules

\* enriched_modules.append(module)
append_module(enriched_modules, module) == Append(enriched_modules, module)

(* ---------------------------------------------------------------- the actions *)
\* A mutant of handler_entry: the constructor does not look at the key; the
\* first model call would.
handler_entry_unchecked_key(r) ==
    /\ pc[r] = "start"
    /\ state' = [state EXCEPT ![r] = InitialState(env[r].req)]
    /\ Goto(r, "report", EntryPoint, error[r])
    /\ UNCHANGED <<env, loc, sink, written, emitted, calls, started, iofault>>

\* handler up to the first await: the context is read, the generator is
\* constructed (ValueError without GROQ_API_KEY), generate() builds the
\* initial state and the graph is entered at its entry point.
handler_entry(r) ==
    /\ pc[r] = "start"
    /\ IF ~env[r].hasKey
       THEN /\ Throw(r, "ValueError")
            /\ UNCHANGED state
       ELSE /\ state' = [state EXCEPT ![r] = InitialState(env[r].req)]
            /\ Goto(r, "report", EntryPoint, error[r])
    /\ UNCHANGED <<env, loc, sink, written, emitted, calls, started, iofault>>

\* _analyze_background: the progress update at 15.
analyze_background_report(r) ==
    /\ pc[r] = "report" /\ node[r] = "analyze_background"
    /\ Start(r)
    /\ \E o \in SinkOutcomes(r) :
         /\ stream_update(r, "analyzing", 15, o)
         /\ IF o = "raise" THEN Throw(r, "SinkError")
                           ELSE Goto(r, "call", node[r], error[r])
    /\ UNCHANGED <<env, state, loc, emitted, calls>>

\* _analyze_background: the model call and the state update.
analyze_background_call(r) ==
    /\ pc[r] = "call" /\ node[r] = "analyze_background"
    /\ \/ /\ Call(r, 0, "raise", FALSE)
          /\ Throw(r, "ModelCallError")
          /\ UNCHANGED state
       \/ \E content \in AnalysisTexts :
            /\ Call(r, 0, "text", FALSE)
            /\ state' = [state EXCEPT ![r] = analyze_background_result(@, content)]
            /\ FinishNode(r)
    /\ UNCHANGED <<env, loc, sink, written, emitted, started, iofault>>

\* _generate_curriculum: the progress update at 40.
generate_curriculum_report(r) ==
    /\ pc[r] = "report" /\ node[r] = "generate_curriculum"
    /\ Start(r)
    /\ \E o \in SinkOutcomes(r) :
         /\ stream_update(r, "generating", 40, o)
         /\ IF o = "raise" THEN Throw(r, "SinkError")
                           ELSE Goto(r, "call", node[r], error[r])
    /\ UNCHANGED <<env, state, loc, emitted, calls>>

\* _generate_curriculum: the model call, the parse and the state update.
generate_curriculum_call(r) ==
    /\ pc[r] = "call" /\ node[r] = "generate_curriculum"
    /\ \/ /\ Call(r, 0, "raise", FALSE)
          /\ Throw(r, "ModelCallError")
          /\ UNCHANGED state
       \/ \E content \in CurriculumTexts :
            LET res == generate_curriculum_result(state[r], content, env[r].logger)
            IN /\ Call(r, 0, ReplyOf(content), IsFencedJson(content))
               /\ IF res.ok
                  THEN /\ state' = [state EXCEPT ![r] = res.v]
                       /\ FinishNode(r)
                  ELSE /\ Throw(r, res.exc)
                       /\ UNCHANGED state
    /\ UNCHANGED <<env, loc, sink, written, emitted, started, iofault>>

\* A mutant of enrich_resources_report: the interpolated progress update is
\* made once even when there is nothing to iterate.
enrich_resources_report_post_test(r) ==
    /\ pc[r] = "report" /\ node[r] = "enrich_resources"
    /\ Start(r)
    /\ \E o \in SinkOutcomes(r) :
         /\ stream_update(r, "enriching", 75, o)
         /\ LET it == enrich_iter(state[r])
            IN IF o = "raise"
               THEN /\ Throw(r, "SinkError")
                    /\ UNCHANGED <<state, loc>>
               ELSE IF ~it.ok
               THEN /\ Throw(r, it.exc)
                    /\ UNCHANGED <<state, loc>>
               ELSE /\ loc' = [loc EXCEPT ![r] = NoLocals]
                    /\ Goto(r, IF Len(it.v) = 0 THEN "progress" ELSE "call", node[r], error[r])
                    /\ UNCHANGED state
    /\ UNCHANGED <<env, emitted, calls>>

\* _enrich_resources: the progress update at 75 and the start of the loop;
\* with nothing to iterate the stage completes at once.
enrich_resources_report(r) ==
    /\ pc[r] = "report" /\ node[r] = "enrich_resources"
    /\ Start(r)
    /\ \E o \in SinkOutcomes(r) :
         /\ stream_update(r, "enriching", 75, o)
         /\ LET it == enrich_iter(state[r])
            IN IF o = "raise"
               THEN /\ Throw(r, "SinkError")
                    /\ UNCHANGED <<state, loc>>
               ELSE IF ~it.ok
               THEN /\ Throw(r, it.exc)
                    /\ UNCHANGED <<state, loc>>
               ELSE IF Len(it.v) = 0
               THEN /\ state' = [state EXCEPT ![r] = enrich_resources_result(@, <<>>)]
                    /\ loc' = [loc EXCEPT ![r] = NoLocals]
                    /\ FinishNode(r)
               ELSE /\ loc' = [loc EXCEPT ![r] = NoLocals]
                    /\ Goto(r, "call", node[r], error[r])
                    /\ UNCHANGED state
    /\ UNCHANGED <<env, emitted, calls>>

\* _enrich_resources, one iteration up to its progress update: the prompt
\* of module idx, the model call, the parse, module['resources'] = ... on
\* the module inside the curriculum, enriched_modules.append(module).
enrich_resources_call(r) ==
    /\ pc[r] = "call" /\ node[r] = "enrich_resources"
    /\ LET i == loc[r].idx + 1
           module == enrich_iter(state[r]).v[i]
           prompt == enrich_prompt(module, state[r].preferences)
       IN IF ~prompt.ok
          THEN /\ Throw(r, prompt.exc)
               /\ UNCHANGED <<state, loc, calls>>
          ELSE \/ /\ Call(r, loc[r].idx, "raise", FALSE)
                  /\ Throw(r, "ModelCallError")
                  /\ UNCHANGED <<state, loc>>
               \/ \E content \in ResourceTexts :
                    LET res == enrich_module_result(module, content)
                    IN /\ Call(r, loc[r].idx, ReplyOf(content), FALSE)
                       /\ IF res.ok
                          THEN /\ state' = [state EXCEPT
                                   ![r].curriculum_structure.val.modules.items[i] = res.v]
                               /\ loc' = [loc EXCEPT
                                   ![r].enriched_modules = append_module(@, res.v)]
                               /\ Goto(r, "progress", node[r], error[r])
                          ELSE /\ Throw(r, res.exc)
                               /\ UNCHANGED <<state, loc>>
    /\ UNCHANGED <<env, sink, written, emitted, started, iofault>>

\* _enrich_resources, the end of one iteration: the interpolated progress
\* update, then the next iteration or the state update after the loop.
enrich_resources_progress(r) ==
    /\ pc[r] = "progress" /\ node[r] = "enrich_resources"
    /\ LET total == PyLen(DictGet(state[r].curriculum_structure, "modules", List(<<>>)).v).v
           idx == loc[r].idx
       IN IF total = 0
          THEN /\ Throw(r, "ZeroDivisionError")
               /\ UNCHANGED <<state, loc, sink, written, iofault>>
          ELSE \E o \in SinkOutcomes(r) :
                 /\ stream_update(r, "enriching", enrich_progress(idx, total), o)
                 /\ IF o = "raise"
                    THEN /\ Throw(r, "SinkError")
                         /\ UNCHANGED <<state, loc>>
                    ELSE IF idx + 1 < total
                    THEN /\ loc' = [loc EXCEPT ![r].idx = idx + 1]
                         /\ Goto(r, "call", node[r], error[r])
                         /\ UNCHANGED state
                    ELSE /\ state' = [state EXCEPT ![r] =
                                enrich_resources_result(@, loc[r].enriched_modules)]
                         /\ loc' = [loc EXCEPT ![r].idx = idx + 1]
                         /\ FinishNode(r)
    /\ UNCHANGED <<env, emitted, calls, started>>

\* _finalize_path: the progress update at 100, the final path; the graph
\* ends and generate() returns final_state['final_path'].
finalize_path_report(r) ==
    /\ pc[r] = "report" /\ node[r] = "finalize_path"
    /\ Start(r)
    /\ \E o \in SinkOutcomes(r) :
         /\ stream_update(r, "completed", 100, o)
         /\ IF o = "raise"
            THEN /\ Throw(r, "SinkError")
                 /\ UNCHANGED state
            ELSE /\ state' = [state EXCEPT ![r] = finalize_path_result(@)]
                 /\ FinishNode(r)
    /\ UNCHANGED <<env, loc, emitted, calls>>

GeneratedEvent(r, learning_path) ==
    [topic |-> "learning.path.generated",
     data |-> [userId |-> env[r].req.userId, topic |-> env[r].req.topic,
               learningPath |-> learning_path, traceId |-> trace_id(r)]]

\* A mutant of FailedEvent: the request's traceId instead of the resolved one.
FailedEvent_request_trace(r, err) ==
    [topic |-> "learning.path.failed",
     data |-> [userId |-> env[r].req.userId, topic |-> env[r].req.topic,
               error |-> err, traceId |-> env[r].req.traceId]]

FailedEvent(r, err) ==
    [topic |-> "learning.path.failed",
     data |-> [userId |-> env[r].req.userId, topic |-> env[r].req.topic,
               error |-> err, traceId |-> trace_id(r)]]

Emit(r, event, outcome) ==
    /\ emitted' = [emitted EXCEPT ![r] = Append(@, [event |-> event, outcome |-> outcome])]
    /\ iofault' = [iofault EXCEPT ![r] = @ \/ (outcome = "raise")]

\* A mutant of emit_generated: after the emission control falls through to
\* the except clause.
emit_generated_falls_through(r) ==
    /\ pc[r] = "emit_generated"
    /\ IF env[r].emit
       THEN \E o \in EmitOutcomes :
              /\ Emit(r, GeneratedEvent(r, state[r].final_path), o)
              /\ IF o = "raise" THEN Throw(r, "EmitError")
                                ELSE Goto(r, "except", node[r], error[r])
       ELSE /\ Goto(r, "returned", node[r], error[r])
            /\ UNCHANGED <<emitted, iofault>>
    /\ UNCHANGED <<env, state, loc, sink, written, calls, started>>

\* handler after generate() returned: `if emit: await emit(generated)`.
emit_generated(r) ==
    /\ pc[r] = "emit_generated"
    /\ IF env[r].emit
       THEN \E o \in EmitOutcomes :
              /\ Emit(r, GeneratedEvent(r, state[r].final_path), o)
              /\ IF o = "raise" THEN Throw(r, "EmitError")
                                ELSE Goto(r, "returned", node[r], error[r])
       ELSE /\ Goto(r, "returned", node[r], error[r])
            /\ UNCHANGED <<emitted, iofault>>
    /\ UNCHANGED <<env, state, loc, sink, written, calls, started>>

\* The except clause: the error record, written when there are streams and
\* a trace id.  An exception here leaves the handler.
except_stream(r) ==
    /\ pc[r] = "except"
    /\ \E o \in SinkOutcomes(r) :
         /\ stream_update(r, "error", 0, o)
         /\ Goto(r, IF o = "raise" THEN "raised" ELSE "emit_failed", node[r], error[r])
    /\ UNCHANGED <<env, state, loc, emitted, calls, started>>

\* The except clause: `if emit: await emit(failed)`, then the handler returns.
emit_failed(r) ==
    /\ pc[r] = "emit_failed"
    /\ IF env[r].emit
       THEN \E o \in EmitOutcomes :
              /\ Emit(r, FailedEvent(r, error[r]), o)
              /\ Goto(r, IF o = "raise" THEN "raised" ELSE "returned", node[r], error[r])
       ELSE /\ Goto(r, "returned", node[r], error[r])
            /\ UNCHANGED <<emitted, iofault>>
    /\ UNCHANGED <<env, state, loc, sink, written, calls, started>>

Next ==
    \E r \in Runs :
        \/ handler_entry(r)
        \/ analyze_background_report(r)
        \/ analyze_background_call(r)
        \/ generate_curriculum_report(r)
        \/ generate_curriculum_call(r)
        \/ enrich_resources_report(r)
        \/ enrich_resources_call(r)
        \/ enrich_resources_progress(r)
        \/ finalize_path_report(r)
        \/ emit_generated(r)
        \/ except_stream(r)
        \/ emit_failed(r)

Spec == Init /\ [][Next]_vars

(* ------------------------------------------------- two concurrent invocations *)
\* Two invocations of handler on one event loop, each with the credential,
\* a sink, an emitter and its own request (userId, topic, traceId).
TopicOf(r) == Str(<<IF r = "r1" THEN "Rust" ELSE "Go">>)

ConcurrentEnv(r) ==
    [hasKey |-> TRUE, logger |-> FALSE, streams |-> TRUE, emit |-> TRUE,
     req |-> [userId |-> UserOf(r), topic |-> TopicOf(r), traceId |-> ReqTraceOf(r),
              preferences |-> Absent],
     ctxTraceId |-> PyNone]

InitConcurrent ==
    /\ env = [r \in Runs |-> ConcurrentEnv(r)]
    /\ pc = [r \in Runs |-> "start"]
    /\ node = [r \in Runs |-> "none"]
    /\ state = [r \in Runs |-> PyNone]
    /\ loc = [r \in Runs |-> NoLocals]
    /\ error = [r \in Runs |-> "none"]
    /\ sink = [k \in TraceKeys |-> PyNone]
    /\ written = [r \in Runs |-> <<>>]
    /\ emitted = [r \in Runs |-> <<>>]
    /\ calls = [r \in Runs |-> <<>>]
    /\ started = [r \in Runs |-> <<>>]
    /\ iofault = [r \in Runs |-> FALSE]

\* The responses considered for the concurrent invocations: an analysis
\* "A", a curriculum that is the fallback or an object with at most one
\* well-formed module, and every enrichment response.
ConcurrentResponses(r) ==
    state[r] # PyNone =>
        /\ state[r].analysis \in {PyNone, Str(<<"A">>)}
        /\ state[r].curriculum_structure # PyNone =>
              LET c == state[r].curriculum_structure
              IN /\ c.type = "dict"
                 /\ "modules" \in DOMAIN c.val
                 /\ c.val.title \in {Str(<<"Path">>), Str(<<"Learning Path: ">> \o TopicOf(r).s)}
                 /\ c.val.modules.type = "list"
                 /\ Len(c.val.modules.items) <= 1
                 /\ \A i \in 1..Len(c.val.modules.items) :
                       LET m == c.val.modules.items[i]
                       IN /\ m.type = "dict"
                          /\ "title" \in DOMAIN m.val
                          /\ "key_concepts" \in DOMAIN m.val
                          /\ m.val.key_concepts.type = "list"

\* The event loop runs one handler step at a time, in any order.
NextConcurrent == Next /\ \A r \in Runs : ConcurrentResponses(r)'

SpecConcurrent == InitConcurrent /\ [][NextConcurrent]_vars

(* ----------------------------------------------------------------- the claims *)
Last(seq) == seq[Len(seq)]
Finished(r) == pc[r] \in {"returned", "raised"}
\* The handler returned without having caught an exception.
Succeeded(r) == pc[r] = "returned" /\ error[r] = "none"
\* The handler caught an exception and has left its except clause.
FailedRun(r) == Finished(r) /\ error[r] # "none"
Progresses(r) == [i \in 1..Len(written[r]) |-> written[r][i].rec.progress]
NonDecreasing(seq) == \A i, j \in 1..Len(seq) : i <= j => seq[i] <= seq[j]
ErrorRecord == ProgressRecord("error", 0)
StageOrder == <<"analyze_background", "generate_curriculum", "enrich_resources", "finalize_path">>
IsPrefix(s, t) == Len(s) <= Len(t) /\ \A i \in 1..Len(s) : s[i] = t[i]

\* C1 as stated: with a sink and a trace id, the progress values written in
\* one run are non-decreasing, the last one is 100 when the run succeeds and
\* 0 when it fails.
C1_AsStated ==
    \A r \in Runs : Streams(r) =>
        /\ NonDecreasing(Progresses(r))
        /\ (Succeeded(r) /\ written[r] # <<>>) => Last(Progresses(r)) = 100
        /\ (FailedRun(r) /\ written[r] # <<>>) => Last(Progresses(r)) = 0

\* C1 amended: with a sink and a trace id, every record is written under
\* the run's trace id; the progress values the four stages write are
\* non-decreasing and lie in 15..100; the last value written is 100 when the
\* run succeeds; when the run fails the error record {stage: error,
\* progress: 0} is written once, after every stage record (the one decrease
\* of the sequence), and it is the last record whenever its write returns.
C1_ProgressOrder ==
    \A r \in Runs : Streams(r) =>
        LET w == written[r]
            n == Len(w)
        IN /\ \A i \in 1..n : w[i].key = trace_id(r)
           /\ \A i \in 1..n : w[i].rec.stage # "error" =>
                 /\ w[i].rec.progress \in 15..100
                 /\ \A j \in 1..i : w[j].rec.progress <= w[i].rec.progress
           /\ \A i \in 1..n : w[i].rec.stage = "error" =>
                 i = n /\ w[i].rec.progress = 0 /\ error[r] # "none"
           /\ Succeeded(r) => n > 0 /\ w[n].rec = ProgressRecord("completed", 100)
           /\ (error[r] # "none" /\ pc[r] \in {"emit_failed", "returned"}) =>
                 n > 0 /\ w[n].rec = ErrorRecord /\ sink[trace_id(r)] = ErrorRecord

\* A failed run whose error record follows at least three stage records.
C1_Witness ==
    \E r \in Runs :
        /\ Streams(r) /\ FailedRun(r) /\ Len(written[r]) >= 4
        /\ Last(written[r]).rec = ErrorRecord
        /\ written[r][Len(written[r]) - 1].rec.progress > 75

\* C2: when a model call fails (analysis, curriculum or a module's
\* enrichment) the pipeline aborts: no later stage starts, no further model
\* call is made, no final path exists and no generated event is emitted;
\* and in a run whose sink writes and emit calls all return, the handler
\* emits exactly the failed event {userId, topic, error, traceId} (given an
\* emitter) and the sink's record for the trace id is {stage: error,
\* progress: 0} (given a sink and a trace id).
C2_ModelCallFailure ==
    \A r \in Runs : error[r] = "ModelCallError" =>
        /\ Last(calls[r]).reply = "raise"
        /\ Last(calls[r]).node = Last(started[r])
        /\ \A i \in 1..(Len(calls[r]) - 1) : calls[r][i].reply # "raise"
        /\ state[r].final_path = PyNone
        /\ \A i \in 1..Len(emitted[r]) : emitted[r][i].event.topic # "learning.path.generated"
        /\ (Finished(r) /\ ~iofault[r]) =>
              /\ pc[r] = "returned"
              /\ env[r].emit =>
                    /\ Len(emitted[r]) = 1
                    /\ emitted[r][1].event.topic = "learning.path.failed"
                    /\ emitted[r][1].event.data =
                          [userId |-> env[r].req.userId, topic |-> env[r].req.topic,
                           error |-> "ModelCallError", traceId |-> trace_id(r)]
              /\ Streams(r) =>
                    /\ sink[trace_id(r)] = [type |-> "record", stage |-> "error", progress |-> 0]
                    /\ Last(written[r]).rec = sink[trace_id(r)]

\* The enrichment call of the second module failed; the run has ended with
\* the failed event and the error record.
C2_Witness ==
    \E r \in Runs :
        /\ error[r] = "ModelCallError" /\ pc[r] = "returned" /\ ~iofault[r]
        /\ env[r].emit /\ Streams(r)
        /\ Len(calls[r]) = 4 /\ Last(calls[r]).idx = 1

\* C3 as stated: the handler never raises to its caller, and every failure
\* of an invocation with an emitter ends with the failed event emitted.
C3_AsStated ==
    \A r \in Runs :
        /\ pc[r] # "raised"
        /\ (FailedRun(r) /\ env[r].emit) =>
              \E i \in 1..Len(emitted[r]) : emitted[r][i].event.topic = "learning.path.failed"

\* C4 as stated: a generated event is emitted only after all four stages
\* completed, its learningPath is the run's final path, with a non-null
\* analysis and a curriculum whose every module carries a `resources` list.
C4_AsStated ==
    \A r \in Runs : \A i \in 1..Len(emitted[r]) :
        LET e == emitted[r][i].event
        IN e.topic = "learning.path.generated" =>
             /\ started[r] = StageOrder
             /\ state[r].current_stage = "completed"
             /\ state[r].final_path # PyNone
             /\ e.data.learningPath = state[r].final_path
             /\ e.data.learningPath.val.analysis # PyNone
             /\ LET modules == e.data.learningPath.val.curriculum.val.modules
                IN /\ modules.type = "list"
                   /\ \A k \in 1..Len(modules.items) :
                        /\ modules.items[k].type = "dict"
                        /\ "resources" \in DOMAIN modules.items[k].val
                        /\ modules.items[k].val.resources.type = "list"

\* C5: a curriculum response that is not JSON after the fence stripping
\* raises nothing: curriculum_structure becomes {title: "Learning Path: " +
\* topic, description: analysis, total_hours: 30, modules: []}, progress
\* becomes 60, the enrich stage makes no model call, and the run goes on
\* through enrich and finalize to the generated event carrying that
\* curriculum; only a sink write or an emit call that raises can still fail it.
C5_FallbackCurriculum ==
    \A r \in Runs :
        (Len(calls[r]) >= 2 /\ calls[r][2].reply = "not_json") =>
            /\ state[r].curriculum_structure.type = "dict"
            /\ state[r].curriculum_structure.val =
                  [title |-> Str(<<"Learning Path: ">> \o env[r].req.topic.s),
                   description |-> state[r].analysis,
                   total_hours |-> Num(30),
                   modules |-> List(<<>>)]
            /\ Len(calls[r]) = 2
            /\ state[r].progress >= 60
            /\ (pc[r] = "report" /\ node[r] = "enrich_resources") => state[r].progress = 60
            /\ error[r] # "none" => iofault[r]
            /\ (Finished(r) /\ ~iofault[r]) =>
                  /\ Succeeded(r)
                  /\ started[r] = StageOrder
                  /\ state[r].enriched_modules = List(<<>>)
                  /\ state[r].final_path.val.curriculum = state[r].curriculum_structure
                  /\ env[r].emit =>
                        /\ Len(emitted[r]) = 1
                        /\ emitted[r][1].event.topic = "learning.path.generated"
                        /\ emitted[r][1].event.data.learningPath = state[r].final_path

\* The curriculum response was not JSON and the run has ended with the
\* generated event.
C5_Witness ==
    \E r \in Runs :
        /\ Len(calls[r]) = 2 /\ calls[r][2].reply = "not_json"
        /\ Succeeded(r) /\ env[r].emit /\ Streams(r)
        /\ Len(emitted[r]) = 1

\* C6 as stated: a curriculum response that is valid JSON, bare or between
\* fences (tagged json or not), raises nothing in _generate_curriculum, is
\* parsed as the bare document is, and leaves curriculum_structure an object
\* with a modules list.
C6_AsStated ==
    \A r \in Runs :
        (Len(calls[r]) >= 2 /\ calls[r][2].fenced_json) =>
            /\ calls[r][2].reply # "not_json"
            /\ ~(error[r] # "none" /\ Last(started[r]) = "generate_curriculum")
            /\ state[r].curriculum_structure.type = "dict"
            /\ "modules" \in DOMAIN state[r].curriculum_structure.val
            /\ state[r].curriculum_structure.val.modules.type = "list"

\* C7 as stated: a module whose enrichment response is not a JSON object
\* (not JSON at all, or another JSON value) gets resources = [], and no
\* exception leaves the stage because of it.
C7_AsStated ==
    \A r \in Runs : \A i \in 1..Len(calls[r]) :
        LET c == calls[r][i]
        IN (c.node = "enrich_resources" /\ c.reply \in {"not_json", "json_other"}) =>
             /\ ~(error[r] # "none" /\ Last(calls[r]) = c /\ ~iofault[r])
             /\ LET m == state[r].curriculum_structure.val.modules.items[c.idx + 1]
                IN "resources" \in DOMAIN m.val /\ m.val.resources = List(<<>>)

\* C8: the modules are enriched in the order of curriculum_structure's
\* modules list: while the loop runs enriched_modules is a prefix of that
\* list, and once the stage has set state's enriched_modules for a non-empty
\* list it has the same length and the same module at every index, the i-th
\* being the i-th module of the curriculum response; the modules of the
\* final path and of the generated event are that list, whichever responses
\* parsed.
C8_OrderPreserved ==
    \A r \in Runs :
        (node[r] \in {"enrich_resources", "finalize_path", "END"}
           /\ state[r].curriculum_structure.type = "dict"
           /\ DictGet(state[r].curriculum_structure, "modules", PyNone).v.type = "list") =>
            LET modules == state[r].curriculum_structure.val.modules.items
                enriched == state[r].enriched_modules
            IN /\ IsPrefix(loc[r].enriched_modules, modules)
               /\ \A i \in 1..Len(loc[r].enriched_modules) :
                     loc[r].enriched_modules[i].val.title = ModuleName(i)
               /\ (enriched # PyNone /\ Len(modules) > 0) =>
                     /\ Len(enriched.items) = Len(modules)
                     /\ \A i \in 1..Len(modules) :
                           /\ enriched.items[i] = modules[i]
                           /\ enriched.items[i].val.title = ModuleName(i)
               /\ state[r].final_path # PyNone =>
                     state[r].final_path.val.curriculum.val.modules = enriched
               /\ \A k \in 1..Len(emitted[r]) :
                     emitted[r][k].event.topic = "learning.path.generated" =>
                        emitted[r][k].event.data.learningPath.val.curriculum.val.modules
                           = enriched

\* A generated event whose two modules were enriched, the first from a
\* response that did not parse and the second from one that did.
C8_Witness ==
    \E r \in Runs :
        /\ Succeeded(r) /\ Len(emitted[r]) = 1
        /\ Len(calls[r]) = 4
        /\ calls[r][3].reply = "not_json" /\ calls[r][4].reply = "json_object"
        /\ Len(state[r].enriched_modules.items) = 2

\* C9 as stated: in every invocation with an emitter exactly one emission is
\* attempted, generated or failed, never both and never neither.
C9_AsStated ==
    \A r \in Runs : (env[r].emit /\ Finished(r)) => Len(emitted[r]) = 1

\* C10, the states: the stages start in the order analyze_background,
\* generate_curriculum, enrich_resources, finalize_path, each at most once,
\* a stage only after the stage before it has completed (state's progress
\* is the 20, 60 or 90 that stage sets on completion, or more),
\* and every model call is made by the stage started last.
C10_StageOrderInv ==
    \A r \in Runs :
        /\ IsPrefix(started[r], StageOrder)
        /\ Len(started[r]) >= 2 => state[r].progress >= 20
        /\ Len(started[r]) >= 3 => state[r].progress >= 60
        /\ Len(started[r]) >= 4 => state[r].progress >= 90
        /\ \A i \in 1..Len(calls[r]) : calls[r][i].node \in {started[r][k] : k \in 1..Len(started[r])}
        /\ \A i, j \in 1..Len(calls[r]) :
              i < j => \E a, b \in 1..Len(StageOrder) :
                          /\ a <= b
                          /\ StageOrder[a] = calls[r][i].node
                          /\ StageOrder[b] = calls[r][j].node

\* C10, the steps: once a stage has raised, no stage starts and no model
\* call is made; a step starts at most one stage.
C10_StageOrderStep ==
    \A r \in Runs :
        /\ error[r] # "none" => (started'[r] = started[r] /\ calls'[r] = calls[r])
        /\ Len(started'[r]) <= Len(started[r]) + 1
        /\ IsPrefix(started[r], started'[r])
        /\ IsPrefix(calls[r], calls'[r])

\* C10: the four stages run in the fixed order, each at most once and one
\* at a time; after a stage raised no later stage starts, no model call is
\* made and no stage runs again.
C10_StageOrder == []C10_StageOrderInv /\ [][C10_StageOrderStep]_vars

\* The enrich stage raised on its second module; three stages were started
\* and three calls made.
C10_Witness ==
    \E r \in Runs :
        /\ Finished(r) /\ error[r] = "AttributeError"
        /\ started[r] = SubSeq(StageOrder, 1, 3)
        /\ Len(calls[r]) = 4

\* The stage-output fields of the pipeline state and the stage that owns each.
OutputFields == {"analysis", "curriculum_structure", "enriched_modules", "final_path"}
OwnerOf ==
    [analyze_background |-> "analysis",
     generate_curriculum |-> "curriculum_structure",
     enrich_resources |-> "enriched_modules",
     finalize_path |-> "final_path"]
\* The step in which the stage at node[r] returns its state to the runner.
Completes(r) ==
    /\ pc[r] \in {"report", "call", "progress"}
    /\ pc'[r] \in {"report", "emit_generated"}

\* C11 as stated: in every step of a stage an output field changes only if
\* it is the field the running stage owns, and then from null to non-null;
\* the other three, nested contents included, keep their value; and the
\* step that completes a stage has changed that stage's field.
C11_AsStated ==
    [][\A r \in Runs : (state[r] # PyNone /\ state'[r] # PyNone) =>
          /\ \A f \in OutputFields :
                state'[r][f] # state[r][f] =>
                    /\ f = OwnerOf[node[r]]
                    /\ state[r][f] = PyNone
                    /\ state'[r][f] # PyNone
          /\ Completes(r) => state'[r][OwnerOf[node[r]]] # PyNone]_vars

\* curriculum.get('modules', []) of the run's curriculum has no element.
EmptyModules(r) ==
    /\ state[r] # PyNone
    /\ LET it == enrich_iter(state[r]) IN it.ok /\ Len(it.v) = 0
EnrichCalls(r) == { i \in 1..Len(calls[r]) : calls[r][i].node = "enrich_resources" }

\* C12 as stated: when the enrich stage has run with an empty module list
\* (and its sink write returned), the run has failed with a division by
\* zero.
C12_AsStated ==
    \A r \in Runs :
        (Len(started[r]) >= 3 /\ EmptyModules(r) /\ ~iofault[r]) =>
            error[r] = "ZeroDivisionError"

\* C12 amended: no run fails with a division by zero.  When the enrich stage
\* runs with an empty module list (for example after the stage-2 fallback)
\* the loop body, and with it the progress interpolation, is never
\* executed: the stage makes no model call, writes the record at 75 and no
\* other, sets enriched_modules to [] and progress to 90, and the run goes
\* on to the finalize stage; the stage fails only if its sink write raises.
C12_EmptyModules ==
    \A r \in Runs :
        /\ error[r] # "ZeroDivisionError"
        /\ (Len(started[r]) >= 3 /\ EmptyModules(r)) =>
              /\ EnrichCalls(r) = {}
              /\ \A i \in 1..Len(written[r]) :
                    written[r][i].rec.stage = "enriching" => written[r][i].rec.progress = 75
              /\ IF Len(started[r]) = 3 /\ error[r] # "none"
                 THEN error[r] = "SinkError" /\ state[r].enriched_modules = PyNone
                 ELSE /\ state[r].enriched_modules = List(<<>>)
                      /\ state[r].progress >= 90
                      /\ Len(started[r]) = 3 => /\ pc[r] = "report"
                                                /\ node[r] = "finalize_path"

\* A run that took the stage-2 fallback, passed the enrich stage with no
\* module and returned successfully.
C12_Witness ==
    \E r \in Runs :
        /\ Succeeded(r) /\ Streams(r) /\ env[r].emit
        /\ Len(calls[r]) = 2 /\ calls[r][2].reply = "not_json"
        /\ state[r].enriched_modules = List(<<>>)
        /\ \E i \in 1..Len(written[r]) : written[r][i].rec = ProgressRecord("enriching", 75)

IsEnriching(w) == w.rec.stage = "enriching"
\* The progress values the enrich stage has written, in order.
EnrichingProgress(r) ==
    LET e == SelectSeq(written[r], IsEnriching)
    IN [k \in 1..Len(e) |-> e[k].rec.progress]

\* C13: with a sink and a trace id, the enrich stage's first report is 75;
\* the report after the module at index i (0-based) of total >= 1 modules
\* is exactly 75 + floor((i + 1) * 15 / total), made once that module has
\* been appended; every value lies in 75..90, the values are non-decreasing,
\* and when the stage has completed there is one report per module after
\* the 75 and the last one is exactly 90.
C13_EnrichProgress ==
    \A r \in Runs : Streams(r) =>
        LET e == EnrichingProgress(r)
            n == Len(e)
        IN /\ n >= 1 => e[1] = 75
           /\ NonDecreasing(e)
           /\ \A k \in 1..n : e[k] \in 75..90
           /\ n >= 2 =>
                 LET it == enrich_iter(state[r])
                     total == Len(it.v)
                 IN /\ it.ok /\ total >= 1 /\ n - 1 <= total
                    /\ \A i \in 0..(n - 2) : e[i + 2] = 75 + ((i + 1) * 15) \div total
                    /\ n - 1 <= Len(loc[r].enriched_modules)
                    /\ Len(loc[r].enriched_modules) <= n
           /\ (state[r] # PyNone /\ state[r].enriched_modules # PyNone
                 /\ state[r].enriched_modules # List(<<>>)) =>
                 /\ n = Len(state[r].enriched_modules.items) + 1
                 /\ e[n] = 90

\* The enrich stage has completed on two modules, reporting 75, 82, 90.
C13_Witness ==
    \E r \in Runs :
        /\ Streams(r) /\ state[r] # PyNone
        /\ state[r].enriched_modules # PyNone
        /\ Len(state[r].enriched_modules.items) = 2
        /\ EnrichingProgress(r) = <<75, 82, 90>>

\* C14 as stated: without the credential no model call is made, no stage
\* starts, no stage progress record is written, and the failure is not an
\* outcome of the request: no error record is written for it and no failed
\* event is emitted for it.
C14_AsStated ==
    \A r \in Runs : ~env[r].hasKey =>
        /\ calls[r] = <<>>
        /\ started[r] = <<>>
        /\ written[r] = <<>>
        /\ emitted[r] = <<>>

\* C14 amended: the credential is looked up when the generator is
\* constructed, which the handler does inside every invocation.  Without
\* it the constructor raises before the pipeline state is built: no stage
\* starts, no model call is made and no stage progress record is written.
\* The handler treats the failure like any other failure of that request:
\* it writes the error record (given a sink and a trace id) and emits the
\* failed event with the request's userId, topic and trace id (given an
\* emitter).
C14_MissingCredential ==
    \A r \in Runs :
        /\ error[r] = "ValueError" => ~env[r].hasKey
        /\ (~env[r].hasKey /\ pc[r] \notin {"start", "idle"}) =>
              /\ error[r] = "ValueError"
              /\ state[r] = PyNone /\ node[r] = "none"
              /\ calls[r] = <<>> /\ started[r] = <<>>
              /\ \A i \in 1..Len(written[r]) : written[r][i].rec = ErrorRecord
              /\ \A i \in 1..Len(emitted[r]) :
                    emitted[r][i].event = FailedEvent(r, "ValueError")
              /\ (Finished(r) /\ ~iofault[r]) =>
                    /\ pc[r] = "returned"
                    /\ env[r].emit => Len(emitted[r]) = 1
                    /\ Streams(r) => /\ Len(written[r]) = 1
                                     /\ sink[trace_id(r)] = ErrorRecord

\* An invocation without the credential has returned after writing the
\* error record and emitting the failed event.
C14_Witness ==
    \E r \in Runs :
        /\ ~env[r].hasKey /\ pc[r] = "returned"
        /\ Len(written[r]) = 1 /\ Len(emitted[r]) = 1
        /\ emitted[r][1].event.topic = "learning.path.failed"

\* Everything an invocation owns.
LocalOf(r) ==
    <<env[r], pc[r], node[r], state[r], loc[r], error[r], written[r],
      emitted[r], calls[r], started[r], iofault[r]>>
LocalOfNext(r) ==
    <<env'[r], pc'[r], node'[r], state'[r], loc'[r], error'[r], written'[r],
      emitted'[r], calls'[r], started'[r], iofault'[r]>>

\* C15, the states: the two requests carry distinct trace ids; each
\* invocation's records are written under its own trace id only, and the
\* sink's record under that id is the last one that invocation wrote (none
\* before its first write); every event it emits carries its own userId,
\* topic and traceId, and a generated event carries its own final path,
\* built from its own request; and what holds of an invocation running
\* alone (the order of its progress records, of its stages and of its
\* modules, the fallback, the outcome of a failed model call) holds of it
\* here.
C15_IsolationInv ==
    /\ \A r, q \in Runs : r # q => env[r].req.traceId # env[q].req.traceId
    /\ \A r \in Runs :
          /\ \A i \in 1..Len(written[r]) : written[r][i].key = trace_id(r)
          /\ sink[trace_id(r)] =
                IF written[r] = <<>> THEN PyNone ELSE Last(written[r]).rec
          /\ \A i \in 1..Len(emitted[r]) :
                LET d == emitted[r][i].event.data
                IN /\ d.userId = UserOf(r) /\ d.topic = TopicOf(r)
                   /\ d.traceId = ReqTraceOf(r)
                   /\ emitted[r][i].event.topic = "learning.path.generated" =>
                         /\ d.learningPath = state[r].final_path
                         /\ d.learningPath.val.userId = UserOf(r)
                         /\ d.learningPath.val.topic = TopicOf(r)
                         /\ d.learningPath.val.traceId = ReqTraceOf(r)
    /\ C1_ProgressOrder /\ C2_ModelCallFailure /\ C5_FallbackCurriculum
    /\ C8_OrderPreserved /\ C10_StageOrderInv

\* C15, the steps: a step belongs to one invocation; it leaves everything
\* the other invocation owns, and the sink's record under the other trace
\* id, as they were.
C15_IsolationStep ==
    \E r \in Runs :
        /\ \A q \in Runs \ {r} : LocalOfNext(q) = LocalOf(q)
        /\ \A k \in TraceKeys \ {trace_id(r)} : sink'[k] = sink[k]

\* C15: two invocations with distinct trace ids, interleaved at every model
\* call and sink write, do not interfere: each writes only under its own
\* trace id, emits only its own data, and takes exactly the steps it takes
\* alone, with the outcome it has alone.
C15_Isolation == []C15_IsolationInv /\ [][C15_IsolationStep]_vars

\* Both invocations have returned, one with the generated event and one
\* with the failed event, each having written under its own trace id.
C15_Witness ==
    /\ Succeeded("r1") /\ FailedRun("r2") /\ pc["r2"] = "returned"
    /\ Len(emitted["r1"]) = 1 /\ Len(emitted["r2"]) = 1
    /\ sink[trace_id("r1")] = ProgressRecord("completed", 100)
    /\ sink[trace_id("r2")] = ErrorRecord
    /\ Len(calls["r1"]) = 3 /\ Len(calls["r2"]) = 3

\* C16 as stated: the traceId inside the learningPath of a generated event
\* equals the traceId of that event and the key under which the run's
\* progress records were written.
C16_AsStated ==
    \A r \in Runs : \A i \in 1..Len(emitted[r]) :
        emitted[r][i].event.topic = "learning.path.generated" =>
            LET d == emitted[r][i].event.data
            IN /\ d.learningPath.val.traceId = d.traceId
               /\ \A k \in 1..Len(written[r]) :
                     written[r][k].key = d.learningPath.val.traceId

\* C17, the states: the k-th model call of a run is the analysis call for
\* k = 1, the curriculum call for k = 2 and the enrichment call of the
\* module at index k - 3 after that; a call that raised is the run's last;
\* and a successful run whose curriculum has N modules has made exactly
\* 2 + N calls, all of which returned.
C17_ModelCallsInv ==
    \A r \in Runs :
        /\ \A k \in 1..Len(calls[r]) :
              /\ calls[r][k].node = (IF k = 1 THEN "analyze_background"
                                     ELSE IF k = 2 THEN "generate_curriculum"
                                     ELSE "enrich_resources")
              /\ calls[r][k].idx = (IF k <= 2 THEN 0 ELSE k - 3)
              /\ calls[r][k].reply = "raise" => k = Len(calls[r])
        /\ Succeeded(r) =>
              LET modules == state[r].final_path.val.curriculum.val.modules
              IN /\ modules.type = "list"
                 /\ modules = state[r].enriched_modules
                 /\ Len(calls[r]) = 2 + Len(modules.items)
                 /\ \A k \in 1..Len(calls[r]) : calls[r][k].reply # "raise"

\* C17, the steps: a step makes at most one model call, after the calls
\* made before it, and no call is made once the finalize stage has started
\* (the stage whose first act is to write the completed record at 100).
C17_ModelCallsStep ==
    \A r \in Runs :
        /\ IsPrefix(calls[r], calls'[r])
        /\ Len(calls'[r]) <= Len(calls[r]) + 1
        /\ ("finalize_path" \in {started[r][k] : k \in 1..Len(started[r])}
              \/ \E k \in 1..Len(written[r]) : written[r][k].rec.progress = 100)
             => calls'[r] = calls[r]

\* C17: a successful run with N modules makes exactly 2 + N model calls:
\* the analysis call, the curriculum call, then one enrichment call per
\* module in module order, one at a time; no model call is made after the
\* completed record at 100 is written.
C17_ModelCalls == []C17_ModelCallsInv /\ [][C17_ModelCallsStep]_vars

\* A successful run with two modules: four calls, the enrichment calls for
\* index 0 then 1, and the completed record written last.
C17_Witness ==
    \E r \in Runs :
        /\ Succeeded(r) /\ Streams(r)
        /\ Len(state[r].enriched_modules.items) = 2
        /\ Len(calls[r]) = 4 /\ calls[r][3].idx = 0 /\ calls[r][4].idx = 1
        /\ Last(written[r]).rec = ProgressRecord("completed", 100)

\* The emissions of a run that returned, i.e. the events it has emitted.
EmittedOk(r) == { i \in 1..Len(emitted[r]) : emitted[r][i].outcome = "ok" }
TerminalRecord(topic) ==
    IF topic = "learning.path.generated" THEN ProgressRecord("completed", 100)
                                         ELSE ErrorRecord

\* C18, the states: an event whose emission returned is the last emission
\* of its invocation and the handler has returned; with a sink and a trace
\* id the sink's record under the trace id is then the last one the
\* invocation wrote: {completed, 100} for a generated event, {error, 0}
\* for a failed event.
C18_TerminalInv ==
    \A r \in Runs : \A i \in EmittedOk(r) :
        /\ i = Len(emitted[r])
        /\ pc[r] = "returned"
        /\ (emitted[r][i].event.topic = "learning.path.generated") = (error[r] = "none")
        /\ Streams(r) =>
              /\ written[r] # <<>>
              /\ Last(written[r]).rec = TerminalRecord(emitted[r][i].event.topic)
              /\ sink[trace_id(r)] = TerminalRecord(emitted[r][i].event.topic)

\* C18, the steps: once an invocation has emitted an event it writes no
\* record, makes no model call and emits nothing.
C18_TerminalStep ==
    \A r \in Runs : EmittedOk(r) # {} =>
        /\ written'[r] = written[r]
        /\ calls'[r] = calls[r]
        /\ emitted'[r] = emitted[r]
        /\ sink'[trace_id(r)] = sink[trace_id(r)]

\* C18: the terminal event is the last externally visible action of an
\* invocation: once the emission of learning.path.generated or
\* learning.path.failed has returned, the invocation writes no further
\* record, makes no model call and emits no other event, and the record
\* {completed, 100} in the sink at the time of a generated event is not
\* overwritten by that run.
C18_TerminalEvent == []C18_TerminalInv /\ [][C18_TerminalStep]_vars

\* A generated event has been emitted after two modules; the sink holds the
\* completed record.
C18_Witness ==
    \E r \in Runs :
        /\ pc[r] = "returned" /\ Streams(r)
        /\ Len(emitted[r]) = 1 /\ emitted[r][1].outcome = "ok"
        /\ emitted[r][1].event.topic = "learning.path.generated"
        /\ Len(written[r]) = 6
        /\ sink[trace_id(r)] = ProgressRecord("completed", 100)
====
